---- MODULE Spec2Model ----
(***************************************************************************)
(* SeismoSocialDistancing.ipynb: the Step 3 download loop, the Step 4 PSD  *)
(* loop and the Step 7 function df_rms (with its helper dfrms).            *)
(*                                                                         *)
(* Two specifications share the variables:                                 *)
(*   SpecRms       one call of df_rms(d, freqs, output)                    *)
(*   SpecDownload  one run of the Step 3 and Step 4 cells                  *)
(***************************************************************************)
EXTENDS Integers, Sequences, FiniteSets, TLC

VARIABLES
    pc,               \* position in the cell / function being run
    \* ---- Step 7, df_rms ----
    data,             \* the table the caller passes as d
    d,                \* the local d (after line 277: d.dropna(axis=1, how='all'))
    freqs,            \* the band list
    output,           \* "ACC" | "VEL" | "DISP"
    RMS,              \* the dict RMS: insertion-ordered list of (label, series)
    k,                \* number of bands the for loop has processed
    fsel,             \* for each processed band, the value of the local f
    ret,              \* what df_rms returned (ret.returned is FALSE before the return)
    \* ---- Step 3 / Step 4 ----
    now,              \* the clock UTCDateTime() reads, in ticks
    datelist,         \* the days of the date range
    mseed,            \* waveform file of each day on disk
    npz,              \* PSD archive of each day and trace id on disk
    force_reprocess,
    di,               \* index in datelist of the day the running loop is at
    stall,            \* Step 4: the trace ids of the day's file still to go through
    mseed0,           \* the waveform files when the run started
    npz0,             \* the PSD archives when the run started
    log3,             \* what Step 3 did with each day
    nowAt,            \* the clock value the Step 3 test of each day read
    log4              \* the archives Step 4 computed and saved

rmsVars == <<data, d, freqs, output, RMS, k, fsel, ret>>
dlVars == <<now, datelist, mseed, npz, force_reprocess, di, stall, mseed0, npz0, log3, nowAt, log4>>
vars == <<pc, rmsVars, dlVars>>

(***************************************************************************)
(* Bounds                                                                  *)
(***************************************************************************)
MaxRows == 2          \* rows (timestamps) of the PSD table
MaxBands == 2         \* length of the band list
MaxDays == 2          \* days of the date range
TicksPerDay == 2      \* clock resolution: ticks in one day

(***************************************************************************)
(* Floating point numbers, held exactly as (num/den) * (2*pi)^(-tau), or   *)
(* NaN.  Every number the model computes is of this form.                  *)
(***************************************************************************)
RECURSIVE GCD(_, _)
GCD(a, b) == IF b = 0 THEN a ELSE GCD(b, a % b)

Abs(a) == IF a < 0 THEN -a ELSE a

NaN == [nan |-> TRUE, num |-> 0, den |-> 1, tau |-> 0]

Norm(n, dn, t) ==
    IF n = 0 THEN [nan |-> FALSE, num |-> 0, den |-> 1, tau |-> 0]
    ELSE LET g == GCD(Abs(n), Abs(dn))
             s == IF dn < 0 THEN -1 ELSE 1
         IN [nan |-> FALSE, num |-> s * (n \div g), den |-> s * (dn \div g), tau |-> t]

Q(n, dn) == Norm(n, dn, 0)

Zero == Q(0, 1)

\* np.pi = (1/2) * (2*pi)
Pi == [nan |-> FALSE, num |-> 1, den |-> 2, tau |-> -1]

IsNaN(x) == x.nan

Mul(x, y) ==
    IF x.nan \/ y.nan THEN NaN ELSE Norm(x.num * y.num, x.den * y.den, x.tau + y.tau)

Div(x, y) ==
    IF x.nan \/ y.nan \/ y.num = 0 THEN NaN
    ELSE Norm(x.num * y.den, x.den * y.num, x.tau - y.tau)

\* x + y; the operands the program adds are powers of one physical unit,
\* so they carry the same power of 2*pi unless one of them is 0.
Add(x, y) ==
    IF x.nan \/ y.nan THEN NaN
    ELSE IF x.num = 0 THEN y
    ELSE IF y.num = 0 THEN x
    ELSE Norm(x.num * y.den + y.num * x.den, x.den * y.den, x.tau)

Sub(x, y) == Add(x, Mul(Q(-1, 1), y))

\* x <= y for frequencies (tau = 0); a comparison with NaN is False
Leq(x, y) == ~x.nan /\ ~y.nan /\ x.num * y.den <= y.num * x.den

RECURSIVE Pow10(_)
Pow10(e) == IF e = 0 THEN 1 ELSE 10 * Pow10(e - 1)

\* 10.0 ** (x / 10.) for a decibel value x that is a multiple of 10
TenToTheTenth(x) ==
    IF x.nan THEN NaN
    ELSE LET e == x.num \div 10
         IN IF e >= 0 THEN Q(Pow10(e), 1) ELSE Q(1, Pow10(-e))

\* np.sqrt: the root of x is held by its radicand
Sqrt(x) == [radicand |-> x]

(***************************************************************************)
(* Tables.  A DataFrame is [index, columns, values] with values[i][j] the  *)
(* cell of row i and column j; a Series is [index, values].                *)
(***************************************************************************)
RECURSIVE Where(_, _)
\* np.where(mask)[0]: the positions p <= n with mask[p], ascending
Where(mask, n) ==
    IF n = 0 THEN <<>>
    ELSE IF mask[n] THEN Append(Where(mask, n - 1), n) ELSE Where(mask, n - 1)

Take(s, ix) == [j \in 1..Len(ix) |-> s[ix[j]]]

\* t.iloc[:, ix]
ILocColumns(t, ix) ==
    [index |-> t.index,
     columns |-> Take(t.columns, ix),
     values |-> [i \in 1..Len(t.values) |-> Take(t.values[i], ix)]]

\* t.dropna(axis=1, how='any'): a column stays when every row has a value in it
DropNaAnyColumns(t) ==
    LET keep == [j \in 1..Len(t.columns) |->
                    \A i \in 1..Len(t.values) : ~IsNaN(t.values[i][j])]
    IN ILocColumns(t, Where(keep, Len(t.columns)))

\* t.dropna(axis=1, how='all'): a column stays when some row has a value in it
DropNaAllColumns(t) ==
    LET keep == [j \in 1..Len(t.columns) |->
                    \E i \in 1..Len(t.values) : ~IsNaN(t.values[i][j])]
    IN ILocColumns(t, Where(keep, Len(t.columns)))

\* t / v for an array v with one entry per column (broadcast across rows)
DivColumns(t, v) ==
    [t EXCEPT !.values =
        [i \in 1..Len(t.values) |-> [j \in 1..Len(t.columns) |-> Div(t.values[i][j], v[j])]]]

RECURSIVE TrapzSum(_, _, _)
\* the sum of the first n terms of diff(x) * (y[1:] + y[:-1]) / 2.0
TrapzSum(y, x, n) ==
    IF n = 0 THEN Zero
    ELSE Add(TrapzSum(y, x, n - 1),
             Div(Mul(Sub(x[n + 1], x[n]), Add(y[n + 1], y[n])), Q(2, 1)))

\* an integral that is NaN when there is no interval to integrate over
TrapzNaNWhenEmpty(y, x) == IF Len(y) <= 1 THEN NaN ELSE TrapzSum(y, x, Len(y) - 1)

\* np.trapz(y, x)
Trapz(y, x) == TrapzSum(y, x, IF Len(y) = 0 THEN 0 ELSE Len(y) - 1)

dfrms(a) == Sqrt(Trapz(a.values, a.index))

\* t.apply(dfrms, axis=1): dfrms on each row as a Series indexed by the
\* columns.  On a table without columns pandas calls dfrms once on an empty
\* Series and repeats its value for every row, which is the same result.
ApplyDfrms(t) ==
    [index |-> t.index,
     values |-> [i \in 1..Len(t.values) |->
                    dfrms([index |-> t.columns, values |-> t.values[i]])]]

\* "%.1f" % x for x >= 0 that is not half way between two tenths
Fmt1(x) ==
    LET t == (20 * x.num + x.den) \div (2 * x.den)
    IN ToString(t \div 10) \o "." \o ToString(t % 10)

\* "%.1f-%.1f" % (fmin, fmax)
Label(fmin, fmax) == Fmt1(fmin) \o "-" \o Fmt1(fmax)

HasKey(D, key) == \E p \in 1..Len(D) : D[p].label = key

\* a store that puts a new key first
DictSetFront(D, key, val) ==
    IF HasKey(D, key)
    THEN [p \in 1..Len(D) |-> IF D[p].label = key THEN [label |-> key, series |-> val] ELSE D[p]]
    ELSE <<[label |-> key, series |-> val]>> \o D

\* a store that leaves a present key as it is (D.setdefault(key, val))
DictSetKeepFirst(D, key, val) ==
    IF HasKey(D, key) THEN D ELSE Append(D, [label |-> key, series |-> val])

\* D[key] = val on a dict: a present key keeps its place, a new one goes last
DictSet(D, key, val) ==
    IF HasKey(D, key)
    THEN [p \in 1..Len(D) |-> IF D[p].label = key THEN [label |-> key, series |-> val] ELSE D[p]]
    ELSE Append(D, [label |-> key, series |-> val])

\* s.reindex(index): the value of each label of index, NaN where s has none
Reindex(s, index) ==
    [i \in 1..Len(index) |->
        IF \E p \in 1..Len(s.index) : s.index[p] = index[i]
        THEN s.values[CHOOSE p \in 1..Len(s.index) : s.index[p] = index[i]]
        ELSE Sqrt(NaN)]

\* pd.DataFrame(D, index=index) for a dict D of Series
DataFrameOf(D, index) ==
    [index |-> index,
     columns |-> [j \in 1..Len(D) |-> D[j].label],
     values |-> [i \in 1..Len(index) |->
                    [j \in 1..Len(D) |-> Reindex(D[j].series, index)[i]]]]

\* pd.DataFrame(D): the index is taken from the Series, none for an empty dict
DataFrameOwnIndex(D, index) ==
    DataFrameOf(D, IF Len(D) = 0 THEN <<>> ELSE D[1].series.index)

\* line 304: pd.DataFrame(RMS, index=d.index)
DataFrame(D, index) == DataFrameOf(D, index)

(***************************************************************************)
(* Step 7: df_rms(d, freqs, output)                                        *)
(***************************************************************************)
\* np.where((d.columns>=fmin) | (d.columns<=fmax))[0]
BandIxEither(t, fmin, fmax) ==
    Where([j \in 1..Len(t.columns) |-> Leq(fmin, t.columns[j]) \/ Leq(t.columns[j], fmax)],
          Len(t.columns))

\* np.where((d.columns>=fmin) & (d.columns<=fmax))[0]
BandIx(t, fmin, fmax) ==
    Where([j \in 1..Len(t.columns) |-> Leq(fmin, t.columns[j]) /\ Leq(t.columns[j], fmax)],
          Len(t.columns))

\* w2f = (2.0 * np.pi * f)
W2f(f) == [j \in 1..Len(f) |-> Mul(Mul(Q(2, 1), Pi), f[j])]

\* v**2 on an array
Squared(v) == [j \in 1..Len(v) |-> Mul(v[j], v[j])]

\* amp = 10.0**(spec/10.)
AccelerationPower(spec) ==
    [spec EXCEPT !.values =
        [i \in 1..Len(spec.values) |->
            [j \in 1..Len(spec.columns) |-> TenToTheTenth(spec.values[i][j])]]]

\* vamp = amp / w2f**2
VelocityPower(amp, w2f) == DivColumns(amp, Squared(w2f))

\* damp = vamp / w2f
DisplacementPowerOnce(vamp, w2f) == DivColumns(vamp, w2f)

\* damp = vamp / w2f**2
DisplacementPower(vamp, w2f) == DivColumns(vamp, Squared(w2f))

NoReturn == [returned |-> FALSE, frame |-> [index |-> <<>>, columns |-> <<>>, values |-> <<>>]]

\* line 277-278: d = d.dropna(axis=1, how='all'); RMS = {}
DfRmsEnter ==
    /\ pc = "df_rms"
    /\ d' = DropNaAllColumns(d)
    /\ RMS' = <<>>
    /\ k' = 0
    /\ pc' = "for"
    /\ UNCHANGED <<data, freqs, output, fsel, ret, dlVars>>

\* the locals of the loop body for the band the loop is at (line 279-288)
LoopFmin == freqs[k + 1][1]

LoopFmax == freqs[k + 1][2]

LoopIx == BandIx(d, LoopFmin, LoopFmax)

LoopSpec == ILocColumns(d, LoopIx)

LoopF == Take(d.columns, LoopIx)

LoopW2f == W2f(LoopF)

LoopAmp == AccelerationPower(LoopSpec)

\* RMS["%.1f-%.1f"%(fmin, fmax)] = series; continue
BandStore(series) ==
    /\ RMS' = DictSet(RMS, Label(LoopFmin, LoopFmax), series)
    /\ fsel' = Append(fsel, LoopF)
    /\ k' = k + 1
    /\ UNCHANGED <<pc, data, d, freqs, output, ret, dlVars>>

AccSeries(amp) == ApplyDfrms(amp)

VelSeries(amp, w2f) == ApplyDfrms(VelocityPower(amp, w2f))

DispSeries(amp, w2f) == ApplyDfrms(DisplacementPower(VelocityPower(amp, w2f), w2f))

InLoop == pc = "for" /\ k < Len(freqs)

\* line 289-291
BandAcc == InLoop /\ output = "ACC" /\ BandStore(AccSeries(LoopAmp))

\* line 294-297
BandVel == InLoop /\ output # "ACC" /\ output = "VEL" /\ BandStore(VelSeries(LoopAmp, LoopW2f))

\* line 300-302
BandDisp == InLoop /\ output # "ACC" /\ output # "VEL" /\ BandStore(DispSeries(LoopAmp, LoopW2f))

\* line 304: return pd.DataFrame(RMS, index=d.index)
DfRmsReturn ==
    /\ pc = "for"
    /\ k = Len(freqs)
    /\ ret' = [returned |-> TRUE, frame |-> DataFrame(RMS, d.index)]
    /\ pc' = "returned"
    /\ UNCHANGED <<data, d, freqs, output, RMS, k, fsel, dlVars>>

(***************************************************************************)
(* The inputs of df_rms                                                    *)
(***************************************************************************)
\* the frequencies (Hz) of the columns, ascending as after data.sort_index(axis=1)
ColumnFreqs == <<Q(1, 1), Q(2, 1), Q(3, 1)>>

dB(x) == Q(x, 1)

\* rows of decibel values, some with missing cells
PsdRows ==
    { <<dB(20), dB(0), dB(10)>>,
      <<NaN, dB(10), dB(20)>>,
      <<dB(0), NaN, dB(-10)>>,
      <<NaN, NaN, dB(0)>> }

\* the timestamp of row i: one PSD segment every 900 s
RowTime(i) == 900 * i

Tables ==
    UNION { { [index |-> [i \in 1..n |-> RowTime(i)], columns |-> ColumnFreqs, values |-> v] :
                v \in [1..n -> PsdRows] } : n \in 0..MaxRows }

\* bands (fmin, fmax) in Hz: whole and partial ranges, a range between two
\* columns, fmin = fmax, fmin > fmax
BandChoices ==
    { <<Q(1, 1), Q(3, 1)>>,
      <<Q(1, 1), Q(2, 1)>>,
      <<Q(104, 100), Q(196, 100)>>,
      <<Q(196, 100), Q(304, 100)>>,
      <<Q(2, 1), Q(2, 1)>>,
      <<Q(3, 1), Q(1, 1)>> }

BandLists == UNION { [1..n -> BandChoices] : n \in 0..MaxBands }

Outputs == {"ACC", "VEL", "DISP"}

DownloadIdle ==
    /\ now = 0
    /\ datelist = <<>>
    /\ mseed = <<>>
    /\ npz = <<>>
    /\ force_reprocess = FALSE
    /\ di = 0
    /\ stall = {}
    /\ mseed0 = <<>>
    /\ npz0 = <<>>
    /\ log3 = <<>>
    /\ nowAt = <<>>
    /\ log4 = {}

InitRms ==
    /\ pc = "df_rms"
    /\ data \in Tables
    /\ d = data
    /\ freqs \in BandLists
    /\ output \in Outputs
    /\ RMS = <<>>
    /\ k = 0
    /\ fsel = <<>>
    /\ ret = NoReturn
    /\ DownloadIdle

NextRms == DfRmsEnter \/ BandAcc \/ BandVel \/ BandDisp \/ DfRmsReturn

SpecRms == InitRms /\ [][NextRms]_vars

(***************************************************************************)
(* df_rms as a function: the series of one band, the dict after n bands,   *)
(* the returned table.  Used to compare a call with a call on other input. *)
(***************************************************************************)
BandSeries(t, band, out) ==
    LET dd == DropNaAllColumns(t)
        ix == BandIx(dd, band[1], band[2])
        f == Take(dd.columns, ix)
        amp == AccelerationPower(ILocColumns(dd, ix))
    IN IF out = "ACC" THEN AccSeries(amp)
       ELSE IF out = "VEL" THEN VelSeries(amp, W2f(f))
       ELSE DispSeries(amp, W2f(f))

RECURSIVE DictAfter(_, _, _, _)
DictAfter(t, fs, out, n) ==
    IF n = 0 THEN <<>>
    ELSE DictSet(DictAfter(t, fs, out, n - 1), Label(fs[n][1], fs[n][2]), BandSeries(t, fs[n], out))

DfRmsOf(t, fs, out) == DataFrame(DictAfter(t, fs, out, Len(fs)), DropNaAllColumns(t).index)

(***************************************************************************)
(* Vocabulary of the properties of df_rms                                  *)
(***************************************************************************)
Rows == 1..Len(data.values)

LabelOf(b) == Label(freqs[b][1], freqs[b][2])

Lookup(D, key) == D[CHOOSE p \in 1..Len(D) : D[p].label = key].series

\* the cells of the column labelled key of a returned table
ColumnOf(fr, key) ==
    LET j == CHOOSE j \in 1..Len(fr.columns) : fr.columns[j] = key
    IN [i \in 1..Len(fr.values) |-> fr.values[i][j]]

HasColumn(fr, key) == \E j \in 1..Len(fr.columns) : fr.columns[j] = key

\* the position in the caller's table of the column of frequency f
DataColumn(f) == CHOOSE j \in 1..Len(data.columns) : data.columns[j] = f

AllMissing(j) == \A i \in Rows : IsNaN(data.values[i][j])

InBand(f, band) == Leq(band[1], f) /\ Leq(f, band[2])

\* the caller's columns a band is to integrate over, in column order
ExpectedSelection(band) ==
    LET keep == [j \in 1..Len(data.columns) |->
                    InBand(data.columns[j], band) /\ ~AllMissing(j)]
    IN Take(data.columns, Where(keep, Len(data.columns)))

RemoveAt(s, p) == [j \in 1..(Len(s) - 1) |-> IF j < p THEN s[j] ELSE s[j + 1]]

WithoutColumn(t, j) ==
    [index |-> t.index,
     columns |-> RemoveAt(t.columns, j),
     values |-> [i \in 1..Len(t.values) |-> RemoveAt(t.values[i], j)]]

Divisions == IF output = "ACC" THEN 0 ELSE IF output = "VEL" THEN 1 ELSE 2

RECURSIVE DivideTimes(_, _, _)
DivideTimes(x, w, n) == IF n = 0 THEN x ELSE Div(DivideTimes(x, w, n - 1), w)

\* (2*pi*f)^2
OmegaSquared(f) ==
    LET twoPiF == Mul([nan |-> FALSE, num |-> 1, den |-> 1, tau |-> -1], f)
    IN Mul(twoPiF, twoPiF)

ZeroSeriesValues == [i \in Rows |-> Sqrt(Zero)]

SelectsNothing(band) == \A j \in 1..Len(d.columns) : ~InBand(d.columns[j], band)

LabelsDistinct == \A a, b \in 1..Len(freqs) : a # b => LabelOf(a) # LabelOf(b)

LastWithLabel(b) ==
    CHOOSE c \in 1..Len(freqs) :
        /\ LabelOf(c) = LabelOf(b)
        /\ \A e \in 1..Len(freqs) : LabelOf(e) = LabelOf(b) => e <= c

\* C3: for the band just processed and every row, the stored value is the
\* square root of the trapezoidal integral, over the selected frequencies, of
\* 10^(dB/10) divided by (2*pi*f)^2 zero times (ACC), once (VEL) or twice
\* (DISP), f being the column's own frequency.
C3_UnitConversion ==
    (pc \in {"for", "returned"} /\ k >= 1) =>
        LET f == fsel[k]
            s == Lookup(RMS, LabelOf(k))
            y(i) == [j \in 1..Len(f) |->
                        DivideTimes(TenToTheTenth(data.values[i][DataColumn(f[j])]),
                                    OmegaSquared(f[j]), Divisions)]
        IN /\ Len(s.values) = Len(data.values)
           /\ \A i \in Rows : s.values[i] = Sqrt(Trapz(y(i), f))

\* a displacement band over three columns with a finite result
C3_Witness ==
    /\ pc = "returned"
    /\ output = "DISP"
    /\ \E b \in 1..Len(freqs) :
          /\ Len(fsel[b]) = 3
          /\ b = Len(freqs)
          /\ \E i \in Rows : ~IsNaN(ret.frame.values[i][Len(ret.frame.columns)].radicand)

\* C4: every processed band integrates over exactly the caller's columns with
\* fmin <= f <= fmax that are not missing in every row, and the series of the
\* band just processed is the one computed from the table with any one
\* entirely missing column taken out.
C4_Selection ==
    (pc \in {"for", "returned"}) =>
        /\ \A b \in 1..k : fsel[b] = ExpectedSelection(freqs[b])
        /\ k >= 1 =>
              \A j \in 1..Len(data.columns) :
                  AllMissing(j) =>
                      Lookup(RMS, LabelOf(k)) = BandSeries(WithoutColumn(data, j), freqs[k], output)

\* a table with rows whose middle column is missing in every row, inside a
\* band that selects the two columns around it
C4_Witness ==
    /\ pc = "returned"
    /\ Len(data.values) = 2
    /\ AllMissing(2) /\ ~AllMissing(1) /\ ~AllMissing(3)
    /\ \E b \in 1..Len(freqs) :
          /\ InBand(data.columns[2], freqs[b])
          /\ fsel[b] = <<data.columns[1], data.columns[3]>>

Lt(x, y) == Leq(x, y) /\ x # y

\* band b has fmin < fmax and selected no column
EmptyBand(b) == Lt(freqs[b][1], freqs[b][2]) /\ fsel[b] = <<>>

\* band b has fmin >= fmax
InvalidBand(b) == ~Lt(freqs[b][1], freqs[b][2])

AllNaN(col) == \A i \in 1..Len(col) : IsNaN(col[i].radicand)

\* C5 as stated: a band with fmin < fmax that selects no column gives an
\* empty or all-missing column, and every other band's column is as if the
\* empty band had not been supplied.
C5_AsStated ==
    pc = "returned" =>
        \A b \in 1..Len(freqs) :
            EmptyBand(b) =>
                /\ HasColumn(ret.frame, LabelOf(b))
                /\ AllNaN(ColumnOf(ret.frame, LabelOf(b)))
                /\ \A c \in 1..Len(freqs) :
                      c # b =>
                          ColumnOf(ret.frame, LabelOf(c))
                            = ColumnOf(DfRmsOf(data, RemoveAt(freqs, b), output), LabelOf(c))

\* C5 (amended): the call is not rejected; the series computed for a band with
\* fmin < fmax that selects no column is 0.0 in every row of the table; and
\* the columns under every other label are those of the call without the
\* empty band.
C5_EmptyBandIsZero ==
    /\ pc # "raised"
    /\ (pc \in {"for", "returned"} /\ k >= 1 /\ EmptyBand(k)) =>
          Lookup(RMS, LabelOf(k)).values = ZeroSeriesValues
    /\ pc = "returned" =>
          /\ ret.returned
          /\ \A b \in 1..Len(freqs) :
                EmptyBand(b) =>
                    LET other == DfRmsOf(data, RemoveAt(freqs, b), output)
                    IN \A j \in 1..Len(ret.frame.columns) :
                          ret.frame.columns[j] # LabelOf(b) =>
                              /\ HasColumn(other, ret.frame.columns[j])
                              /\ ColumnOf(ret.frame, ret.frame.columns[j])
                                   = ColumnOf(other, ret.frame.columns[j])

\* a table with rows, an empty band and a band under another label that
\* selected columns
C5_Witness ==
    /\ pc = "returned"
    /\ Len(data.values) >= 1
    /\ \E b, c \in 1..Len(freqs) :
          /\ EmptyBand(b)
          /\ LabelOf(c) # LabelOf(b)
          /\ Len(fsel[c]) >= 2
          /\ ColumnOf(ret.frame, LabelOf(b)) = ZeroSeriesValues

\* C6 as stated: a band list with a band fmin >= fmax is rejected, no table
\* is returned for it.
C6_AsStated == (\E b \in 1..Len(freqs) : InvalidBand(b)) => pc # "returned"

\* C6 (amended): a band with fmin >= fmax is not rejected: it selects at most
\* one column, the series computed for it is 0.0 in every row, and the
\* returned table has a column under its label.
C6_InvalidBandIsZero ==
    /\ pc # "raised"
    /\ (pc \in {"for", "returned"} /\ k >= 1 /\ InvalidBand(k)) =>
          /\ Len(fsel[k]) <= 1
          /\ Lookup(RMS, LabelOf(k)).values = ZeroSeriesValues
    /\ pc = "returned" =>
          /\ ret.returned
          /\ \A b \in 1..Len(freqs) : InvalidBand(b) => HasColumn(ret.frame, LabelOf(b))

\* a table with rows, a band fmin = fmax on a column that has values and a
\* band fmin > fmax
C6_Witness ==
    /\ pc = "returned"
    /\ Len(data.values) >= 1
    /\ \E b, c \in 1..Len(freqs) :
          /\ freqs[b][1] = freqs[b][2] /\ Len(fsel[b]) = 1
          /\ \E i \in Rows : ~IsNaN(data.values[i][DataColumn(fsel[b][1])])
          /\ Lt(freqs[c][2], freqs[c][1])
          /\ ColumnOf(ret.frame, LabelOf(b)) = ZeroSeriesValues

LabelSet == { LabelOf(b) : b \in 1..Len(freqs) }

\* C7 as stated: an empty band list and an empty table are rejected, no
\* table is returned for either.
C7_AsStated == (freqs = <<>> \/ data.values = <<>>) => pc # "returned"

\* C7 (amended): neither is rejected.  For an empty band list the returned
\* table has the row index of the input and no column; for a table without
\* rows it has no row and one column per distinct band label.
C7_EmptyInputReturns ==
    /\ pc # "raised"
    /\ pc = "returned" =>
          /\ ret.returned
          /\ freqs = <<>> =>
                /\ ret.frame.index = data.index
                /\ ret.frame.columns = <<>>
          /\ data.values = <<>> =>
                /\ ret.frame.index = <<>>
                /\ ret.frame.values = <<>>
                /\ { ret.frame.columns[j] : j \in 1..Len(ret.frame.columns) } = LabelSet
                /\ Len(ret.frame.columns) = Cardinality(LabelSet)

\* an empty band list on a table with rows
C7_Witness ==
    /\ pc = "returned"
    /\ freqs = <<>>
    /\ Len(data.values) >= 1
    /\ ret.frame.index = data.index

\* the label of each band of BandChoices, written out
ExpectedLabel(band) ==
    CASE band = <<Q(1, 1), Q(3, 1)>> -> "1.0-3.0"
      [] band = <<Q(1, 1), Q(2, 1)>> -> "1.0-2.0"
      [] band = <<Q(104, 100), Q(196, 100)>> -> "1.0-2.0"
      [] band = <<Q(196, 100), Q(304, 100)>> -> "2.0-3.0"
      [] band = <<Q(2, 1), Q(2, 1)>> -> "2.0-2.0"
      [] band = <<Q(3, 1), Q(1, 1)>> -> "3.0-1.0"

\* C8: when the labels of the bands are pairwise distinct, the returned table
\* has the row index of the input and one column per band, labelled
\* "fmin-fmax" with one decimal each, in the order of the band list.
C8_ShapeOfResult ==
    (pc = "returned" /\ LabelsDistinct) =>
        /\ ret.frame.index = data.index
        /\ Len(ret.frame.values) = Len(data.values)
        /\ Len(ret.frame.columns) = Len(freqs)
        /\ \A b \in 1..Len(freqs) : ret.frame.columns[b] = ExpectedLabel(freqs[b])
        /\ \A i \in Rows : Len(ret.frame.values[i]) = Len(freqs)

\* two bands with distinct labels on a table with two rows
C8_Witness ==
    /\ pc = "returned"
    /\ Len(freqs) >= 2
    /\ LabelsDistinct
    /\ Len(data.values) = 2
    /\ ret.frame.columns[1] # ret.frame.columns[2]

\* C9: at the return every label has exactly one column, holding the values
\* of the last band with that label, and when two bands share a label the
\* table has fewer columns than there are bands.
C9_LastBandWins ==
    pc = "returned" =>
        /\ ret.returned
        /\ \A b \in 1..Len(freqs) :
              /\ Cardinality({ j \in 1..Len(ret.frame.columns) :
                                  ret.frame.columns[j] = LabelOf(b) }) = 1
              /\ ColumnOf(ret.frame, LabelOf(b))
                   = BandSeries(data, freqs[LastWithLabel(b)], output).values
        /\ ~LabelsDistinct => Len(ret.frame.columns) < Len(freqs)

\* two distinct bands with one label whose series differ
C9_Witness ==
    /\ pc = "returned"
    /\ \E a, b \in 1..Len(freqs) :
          /\ a < b
          /\ freqs[a] # freqs[b]
          /\ LabelOf(a) = LabelOf(b)
          /\ BandSeries(data, freqs[a], output) # BandSeries(data, freqs[b], output)
          /\ ColumnOf(ret.frame, LabelOf(a)) = BandSeries(data, freqs[b], output).values

(***************************************************************************)
(* Step 3 and Step 4.  The clock counts ticks from start; the Timestamp of *)
(* day n of the date range is the instant n * TicksPerDay.                 *)
(***************************************************************************)
Days == 0..(MaxDays - 1)

MaxTick == MaxDays * TicksPerDay

DayTick(day) == day * TicksPerDay

Min(a, b) == IF a < b THEN a ELSE b

\* pd.date_range(start, stop, freq="D") with start at tick 0
DateRange(stop) == [i \in 1..((stop \div TicksPerDay) + 1) |-> i - 1]

TraceIds == {"BE.UCC..HHZ", "BE.UCC..HHN"}

\* the trace ids one day's waveform file can hold
IdSets == { {"BE.UCC..HHZ"}, {"BE.UCC..HHZ", "BE.UCC..HHN"} }

NoFile == [exists |-> FALSE, ids |-> {}, fresh |-> FALSE]

\* a waveform file: fresh when this run fetched it
WaveformFile(ids, fresh) == [exists |-> TRUE, ids |-> ids, fresh |-> fresh]

InRange(day) == \E i \in 1..Len(datelist) : datelist[i] = day

\* the clock moves on by at most one tick while a loop body runs
Tick == now' \in { t \in {now, now + 1} : t <= MaxTick }

InStep3Loop == pc = "step3" /\ di <= Len(datelist)

\* line 136: day != UTCDateTime().datetime and os.path.isfile(fn)
SkipTest(day) == DayTick(day) # now /\ mseed[day].exists

\* line 136-137: continue
Step3Skip ==
    /\ InStep3Loop
    /\ LET day == datelist[di]
       IN /\ SkipTest(day)
          /\ log3' = [log3 EXCEPT ![day] = "skipped"]
          /\ nowAt' = [nowAt EXCEPT ![day] = now]
    /\ di' = di + 1
    /\ Tick
    /\ UNCHANGED <<pc, rmsVars, datelist, mseed, npz, force_reprocess, stall, mseed0, npz0, log4>>

\* line 138-142: get_waveforms returns a stream, st.write(fn)
Step3Fetch ==
    /\ InStep3Loop
    /\ LET day == datelist[di]
       IN /\ ~SkipTest(day)
          /\ \E ids \in IdSets : mseed' = [mseed EXCEPT ![day] = WaveformFile(ids, TRUE)]
          /\ log3' = [log3 EXCEPT ![day] = "fetched"]
          /\ nowAt' = [nowAt EXCEPT ![day] = now]
    /\ di' = di + 1
    /\ Tick
    /\ UNCHANGED <<pc, rmsVars, datelist, npz, force_reprocess, stall, mseed0, npz0, log4>>

\* get_waveforms raises inside a try whose except clause continues the loop
Step3FetchRaisesContinue ==
    /\ InStep3Loop
    /\ LET day == datelist[di]
       IN /\ ~SkipTest(day)
          /\ log3' = [log3 EXCEPT ![day] = "failed"]
          /\ nowAt' = [nowAt EXCEPT ![day] = now]
    /\ di' = di + 1
    /\ Tick
    /\ UNCHANGED <<pc, rmsVars, datelist, mseed, npz, force_reprocess, stall, mseed0, npz0, log4>>

\* line 140: get_waveforms raises; nothing catches it, the cell stops
Step3FetchRaises ==
    /\ InStep3Loop
    /\ LET day == datelist[di]
       IN /\ ~SkipTest(day)
          /\ log3' = [log3 EXCEPT ![day] = "failed"]
          /\ nowAt' = [nowAt EXCEPT ![day] = now]
    /\ pc' = "raised"
    /\ Tick
    /\ UNCHANGED <<rmsVars, datelist, mseed, npz, force_reprocess, di, stall, mseed0, npz0, log4>>

\* line 143-145: resp = c.get_stations(...), then the Step 4 cell starts
GetStations ==
    /\ pc = "step3"
    /\ di > Len(datelist)
    /\ pc' = "step4"
    /\ di' = 1
    /\ Tick
    /\ UNCHANGED <<rmsVars, datelist, mseed, npz, force_reprocess, stall, mseed0, npz0, log3, nowAt, log4>>

\* line 143: get_stations raises
GetStationsRaises ==
    /\ pc = "step3"
    /\ di > Len(datelist)
    /\ pc' = "raised"
    /\ Tick
    /\ UNCHANGED <<rmsVars, datelist, mseed, npz, force_reprocess, di, stall, mseed0, npz0, log3, nowAt, log4>>

\* line 170-175: stall = read(fn_in, headonly=True); the ids of its traces.
\* Step 3 has left a file for every day of the range.
Step4Read ==
    /\ pc = "step4"
    /\ di <= Len(datelist)
    /\ mseed[datelist[di]].exists
    /\ stall' = mseed[datelist[di]].ids
    /\ pc' = "step4_ids"
    /\ UNCHANGED <<rmsVars, now, datelist, mseed, npz, force_reprocess, di, mseed0, npz0, log3, nowAt, log4>>

\* not os.path.isfile(fn_out) and not force_reprocess
ArchiveTestInverted(day, id) == npz[day][id] = "none" /\ ~force_reprocess

\* line 177: os.path.isfile(fn_out) and not force_reprocess
ArchiveTest(day, id) == npz[day][id] # "none" /\ ~force_reprocess

\* line 177-178: continue
Step4SkipId ==
    /\ pc = "step4_ids"
    /\ \E id \in stall :
          /\ ArchiveTest(datelist[di], id)
          /\ stall' = stall \ {id}
    /\ UNCHANGED <<pc, rmsVars, now, datelist, mseed, npz, force_reprocess, di, mseed0, npz0, log3, nowAt, log4>>

\* line 179-191: the PPSD of the day's file is computed and saved
Step4ComputeId ==
    /\ pc = "step4_ids"
    /\ \E id \in stall :
          LET day == datelist[di]
          IN /\ ~ArchiveTest(day, id)
             /\ npz' = [npz EXCEPT ![day][id] = IF mseed[day].fresh THEN "fromNew" ELSE "fromOld"]
             /\ log4' = log4 \cup {<<day, id>>}
             /\ stall' = stall \ {id}
    /\ UNCHANGED <<pc, rmsVars, now, datelist, mseed, force_reprocess, di, mseed0, npz0, log3, nowAt>>

\* line 192: del stall, next day
Step4NextDay ==
    /\ pc = "step4_ids"
    /\ stall = {}
    /\ di' = di + 1
    /\ pc' = "step4"
    /\ UNCHANGED <<rmsVars, now, datelist, mseed, npz, force_reprocess, stall, mseed0, npz0, log3, nowAt, log4>>

\* the Step 4 loop ends
Step4Done ==
    /\ pc = "step4"
    /\ di > Len(datelist)
    /\ pc' = "done"
    /\ UNCHANGED <<rmsVars, now, datelist, mseed, npz, force_reprocess, di, stall, mseed0, npz0, log3, nowAt, log4>>

RmsIdle ==
    /\ data = [index |-> <<>>, columns |-> <<>>, values |-> <<>>]
    /\ d = data
    /\ freqs = <<>>
    /\ output = "DISP"
    /\ RMS = <<>>
    /\ k = 0
    /\ fsel = <<>>
    /\ ret = NoReturn

\* the disk and the clock when the Step 3 cell starts: files only matter for
\* the days of the range, an archive on disk was made by an earlier run
InitDownload ==
    /\ pc = "step3"
    /\ now \in 0..(MaxTick - 1)
    /\ \E end \in 0..(MaxTick - 1) : datelist = DateRange(Min(end, now))
    /\ mseed \in [Days -> {NoFile} \cup { WaveformFile(ids, FALSE) : ids \in IdSets }]
    /\ npz \in [Days -> [TraceIds -> {"none", "old"}]]
    /\ \A day \in Days :
          ~InRange(day) => mseed[day] = NoFile /\ \A id \in TraceIds : npz[day][id] = "none"
    /\ force_reprocess \in BOOLEAN
    /\ di = 1
    /\ stall = {}
    /\ mseed0 = mseed
    /\ npz0 = npz
    /\ log3 = [day \in Days |-> "pending"]
    /\ nowAt = [day \in Days |-> 0]
    /\ log4 = {}
    /\ RmsIdle

NextDownload ==
    \/ Step3Skip
    \/ Step3Fetch
    \/ Step3FetchRaises
    \/ GetStations
    \/ GetStationsRaises
    \/ Step4Read
    \/ Step4SkipId
    \/ Step4ComputeId
    \/ Step4NextDay
    \/ Step4Done

SpecDownload == InitDownload /\ [][NextDownload]_vars

(***************************************************************************)
(* Properties of Step 3 and Step 4                                         *)
(***************************************************************************)
Visited(day) == log3[day] # "pending"

\* the Step 3 test of the day ran on the day itself
WasToday(day) == nowAt[day] \div TicksPerDay = day

Requested(day) == log3[day] \in {"fetched", "failed"}

Position(day) == CHOOSE i \in 1..Len(datelist) : datelist[i] = day

Later(a, b) == InRange(a) /\ InRange(b) /\ Position(a) < Position(b)

\* C1 as stated: of the days the loop has gone through, one whose file was on
\* disk and that is not the current day is skipped and its file left as it
\* was; the current day is fetched again whether or not its file exists; a
\* day without a file is fetched.
C1_AsStated ==
    \A day \in Days :
        Visited(day) =>
            /\ (mseed0[day].exists /\ ~WasToday(day)) =>
                  log3[day] = "skipped" /\ mseed[day] = mseed0[day]
            /\ WasToday(day) => Requested(day)
            /\ ~mseed0[day].exists => Requested(day)
            /\ log3[day] = "fetched" => mseed[day].exists /\ mseed[day].fresh

\* C2 as stated: when the cell has stopped, every day after a failed fetch
\* whose file was missing has been fetched and written.
C2_AsStated ==
    pc \in {"done", "raised"} =>
        \A day, later \in Days :
            (log3[day] = "failed" /\ Later(day, later) /\ ~mseed0[later].exists) =>
                log3[later] = "fetched" /\ mseed[later].exists

\* C2 (amended): a failed fetch stops the cell: no later day of the range is
\* fetched or written, its file stays as it was, and Step 4 does not run.
C2_FailedFetchStopsTheLoop ==
    \A day \in Days :
        log3[day] = "failed" =>
            /\ pc = "raised"
            /\ log4 = {}
            /\ \A later \in Days :
                  Later(day, later) => log3[later] = "pending" /\ mseed[later] = mseed0[later]

\* the fetch of a day failed and a later day of the range has no file
C2_Witness ==
    /\ pc = "raised"
    /\ \E day, later \in Days :
          /\ log3[day] = "failed"
          /\ Later(day, later)
          /\ ~mseed[later].exists

\* C10: with force_reprocess False an archive that was on disk is never
\* computed or written again, also when Step 3 fetched the day's waveform
\* file in this run, and only archives that were absent are written; with
\* force_reprocess True, once Step 4 is through, the archive of every day of
\* the range and every trace id of its file has been computed and written.
C10_ArchiveCache ==
    /\ ~force_reprocess =>
          \A day \in Days, id \in TraceIds :
              /\ npz0[day][id] # "none" => npz[day][id] = npz0[day][id] /\ <<day, id>> \notin log4
              /\ npz[day][id] # npz0[day][id] => npz0[day][id] = "none" /\ <<day, id>> \in log4
    /\ (force_reprocess /\ pc = "done") =>
          \A day \in Days :
              InRange(day) =>
                  \A id \in mseed[day].ids :
                      /\ <<day, id>> \in log4
                      /\ npz[day][id] = IF mseed[day].fresh THEN "fromNew" ELSE "fromOld"

\* Step 3 wrote again a waveform file that was on disk, and the archive made
\* from the older file is still the one on disk when Step 4 is through
C10_Witness ==
    /\ pc = "done"
    /\ ~force_reprocess
    /\ \E day \in Days, id \in TraceIds :
          /\ mseed0[day].exists
          /\ log3[day] = "fetched"
          /\ id \in mseed[day].ids
          /\ npz0[day][id] = "old"
          /\ npz[day][id] = "old"

====
